---- MODULE Spec2Model ----
(* A model of src/app/app.py: the start-up sequence of the module (the       *)
(* decorative imports, reading PORT, binding the listener, announcing the    *)
(* port) followed by serve_forever with HealthHandler answering requests.    *)
(* The process environment (importable modules, the PORT variable, ports     *)
(* already taken by other processes) is chosen in Init and never changes.    *)
EXTENDS Integers, Sequences, FiniteSets, TLC

VARIABLES
    importable,  \* environment: module names the interpreter can import
    envPORT,     \* environment: os.environ's PORT, [set, val]; val is a string of characters
    portsInUse,  \* environment: TCP ports other processes already listen on
    pc,          \* position of the main program
    port,        \* the local variable port of __main__ (meaningful after line 32)
    server,      \* the HTTPServer's listening socket: [bound, host, port]
    stdout,      \* lines printed to standard output
    log,         \* lines emitted through log_message
    history,     \* the requests handled so far, each with its response
    failure,     \* the uncaught exception that ended the process, "" if none
    exitStatus   \* the process's exit status (meaningful when pc = "exited")

vars == <<importable, envPORT, portsInUse, pc, port, server, stdout, log,
          history, failure, exitStatus>>

env == <<importable, envPORT, portsInUse>>

-----------------------------------------------------------------------------
(* Bounds of the model.                                                      *)

\* how many requests a run of the model serves
MaxRequests == 3

-----------------------------------------------------------------------------
(* Values of the environment and of the requests.                            *)

\* the modules imported by lines 8-11, in the order of the import statements
DecorativeImports == <<"flask", "requests", "pyyaml", "cryptography">>

DefaultPort == 8080

Unset == [set |-> FALSE, val |-> <<>>]
SetTo(s) == [set |-> TRUE, val |-> s]

\* values of the PORT environment variable, as strings of characters
PortEnvValues ==
    { Unset,
      SetTo(<<"9", "0", "9", "0">>),
      SetTo(<<"8", "0", "8", "0">>),
      SetTo(<<" ", "9", "0", "9", "0">>),
      SetTo(<<"0">>),
      SetTo(<<"a", "b", "c">>),
      SetTo(<<"9", "0", "x">>),
      SetTo(<<>>),
      SetTo(<<"7", "0", "0", "0", "0">>),
      SetTo(<<"-", "1">>) }

\* ports another process may hold
ContendedPorts == {8080, 9090}

\* ports the operating system hands out for a bind to port 0
EphemeralPorts == {49152, 49153}

\* the range bind() accepts
ValidPorts == 0..65535

Methods == {"GET", "POST", "HEAD"}

Paths == {"/health", "/", "/foo", "/health/", "/health?x=1"}

-----------------------------------------------------------------------------
(* int(): Python's conversion of a string to an integer.                     *)

IsDigit(c) == c \in {"0", "1", "2", "3", "4", "5", "6", "7", "8", "9"}

DigitVal(c) ==
    CASE c = "0" -> 0 [] c = "1" -> 1 [] c = "2" -> 2 [] c = "3" -> 3
      [] c = "4" -> 4 [] c = "5" -> 5 [] c = "6" -> 6 [] c = "7" -> 7
      [] c = "8" -> 8 [] c = "9" -> 9

RECURSIVE LStrip(_)
LStrip(s) == IF s # <<>> /\ Head(s) = " " THEN LStrip(Tail(s)) ELSE s

RECURSIVE RStrip(_)
RStrip(s) ==
    IF s # <<>> /\ s[Len(s)] = " " THEN RStrip(SubSeq(s, 1, Len(s) - 1)) ELSE s

RECURSIVE DigitsValue(_, _)
DigitsValue(s, acc) ==
    IF s = <<>> THEN acc ELSE DigitsValue(Tail(s), 10 * acc + DigitVal(Head(s)))

AllDigits(s) == s # <<>> /\ \A i \in DOMAIN s : IsDigit(s[i])

\* int(s) for a string s: surrounding blanks are dropped, one sign is allowed,
\* the rest must be a non-empty run of digits; anything else is a ValueError
ParseInt(s) ==
    LET t == RStrip(LStrip(s))
        signed == t # <<>> /\ Head(t) \in {"+", "-"}
        d == IF signed THEN Tail(t) ELSE t
    IN  IF AllDigits(d)
        THEN [ok |-> TRUE,
              val |-> IF signed /\ Head(t) = "-"
                      THEN 0 - DigitsValue(d, 0) ELSE DigitsValue(d, 0)]
        ELSE [ok |-> FALSE, val |-> 0]

\* variant: PORT is ignored and the default is always used
PortFromEnv_AlwaysDefault(e) == [ok |-> TRUE, val |-> DefaultPort]

\* int(os.environ.get("PORT", 8080)): the default is used only when PORT is absent
PortFromEnv(e) ==
    IF e.set THEN ParseInt(e.val) ELSE [ok |-> TRUE, val |-> DefaultPort]

\* str(n) as the f-string of line 34 formats it
DigitChar(d) ==
    CASE d = 0 -> "0" [] d = 1 -> "1" [] d = 2 -> "2" [] d = 3 -> "3"
      [] d = 4 -> "4" [] d = 5 -> "5" [] d = 6 -> "6" [] d = 7 -> "7"
      [] d = 8 -> "8" [] d = 9 -> "9"

RECURSIVE NatStr(_)
NatStr(n) == IF n < 10 THEN <<DigitChar(n)>> ELSE NatStr(n \div 10) \o <<DigitChar(n % 10)>>

IntStr(n) == IF n < 0 THEN <<"-">> \o NatStr(0 - n) ELSE NatStr(n)

AnnounceLine(p) == <<"Server running on port ">> \o IntStr(p)

-----------------------------------------------------------------------------
(* json.dumps / json.loads for a flat object of string fields, on tokens.    *)

RECURSIVE DumpItems(_)
DumpItems(pairs) ==
    IF pairs = <<>> THEN <<>>
    ELSE <<"\"", pairs[1][1], "\"", ": ", "\"", pairs[1][2], "\"">>
         \o (IF Len(pairs) > 1 THEN <<", ">> ELSE <<>>)
         \o DumpItems(Tail(pairs))

JsonDumps(pairs) == <<"{">> \o DumpItems(pairs) \o <<"}">>

RECURSIVE LoadItems(_)
LoadItems(t) ==
    IF Len(t) >= 7 /\ t[1] = "\"" /\ t[3] = "\"" /\ t[4] = ": "
                   /\ t[5] = "\"" /\ t[7] = "\""
    THEN LET rest == SubSeq(t, 8, Len(t))
             more == IF rest # <<>> /\ Head(rest) = ", "
                     THEN LoadItems(Tail(rest))
                     ELSE [ok |-> rest = <<>>, val |-> <<>>]
         IN  [ok |-> more.ok, val |-> <<(<<t[2], t[6]>>)>> \o more.val]
    ELSE [ok |-> FALSE, val |-> <<>>]

JsonLoads(t) ==
    IF Len(t) >= 2 /\ t[1] = "{" /\ t[Len(t)] = "}"
    THEN IF Len(t) = 2 THEN [ok |-> TRUE, val |-> <<>>]
         ELSE LoadItems(SubSeq(t, 2, Len(t) - 1))
    ELSE [ok |-> FALSE, val |-> <<>>]

-----------------------------------------------------------------------------
(* HealthHandler.                                                            *)

Greeting == <<"Supply Chain POC App">>

HealthPayload == <<(<<"status", "ok">>)>>

Response(status, ctype, body) == [status |-> status, ctype |-> ctype, body |-> body]

\* variant: the health branch is lost and every path gets the greeting
do_GET_HealthAsText(path) == Response(200, "text/plain", Greeting)

\* variant: the health branch matches by prefix instead of by equality
do_GET_PrefixMatch(path) ==
    IF path \in {"/health", "/health/", "/health?x=1"}
    THEN Response(200, "application/json", JsonDumps(HealthPayload))
    ELSE Response(200, "text/plain", Greeting)

\* variant: paths other than /health are answered 404
do_GET_NotFound(path) ==
    IF path = "/health"
    THEN Response(200, "application/json", JsonDumps(HealthPayload))
    ELSE Response(404, "text/plain", <<"Not Found">>)

\* HealthHandler.do_GET: dispatch on the exact request target
do_GET(path) ==
    IF path = "/health"
    THEN Response(200, "application/json", JsonDumps(HealthPayload))
    ELSE Response(200, "text/plain", Greeting)

\* variant: the base class's log_message, which writes the line
log_message_Default(l, line) == Append(l, line)

\* HealthHandler.log_message: pass; l is the log output so far
log_message(l, line) == l

\* the do_* methods HealthHandler defines
HandlerMethods == {"GET"}

\* the answer of BaseHTTPRequestHandler for a method the handler class lacks
UnsupportedMethod(method) ==
    Response(501, "text/html;charset=utf-8",
             IF method = "HEAD" THEN <<>> ELSE <<"Unsupported method">>)

\* one request through the handler class: do_GET when the method is GET,
\* the base class's 501 otherwise
Answer(method, path) ==
    IF method \in HandlerMethods THEN do_GET(path) ELSE UnsupportedMethod(method)

\* the lines the base class hands to log_message while answering
LogCalls(method, path) ==
    IF method \in HandlerMethods
    THEN <<(<<method, path, "200">>)>>
    ELSE <<(<<method, path, "code 501">>), (<<method, path, "501">>)>>

RECURSIVE LogAll(_, _)
LogAll(l, lines) ==
    IF lines = <<>> THEN l ELSE LogAll(log_message(l, Head(lines)), Tail(lines))

-----------------------------------------------------------------------------
(* The program.                                                              *)

NoServer == [bound |-> FALSE, host |-> "", port |-> 0]

Init ==
    /\ importable \in SUBSET {DecorativeImports[i] : i \in DOMAIN DecorativeImports}
    /\ envPORT \in PortEnvValues
    /\ portsInUse \in SUBSET ContendedPorts
    /\ pc = "imports"
    /\ port = 0
    /\ server = NoServer
    /\ stdout = <<>>
    /\ log = <<>>
    /\ history = <<>>
    /\ failure = ""
    /\ exitStatus = 0

\* an exception nothing catches: the interpreter prints a traceback and exits 1
Raise(exc) ==
    /\ pc' = "exited"
    /\ failure' = exc
    /\ exitStatus' = 1

\* lines 8-11: the import statements run in order; the first module that is
\* not importable raises ModuleNotFoundError
ImportModules ==
    /\ pc = "imports"
    /\ IF \A i \in DOMAIN DecorativeImports : DecorativeImports[i] \in importable
       THEN pc' = "main" /\ UNCHANGED <<failure, exitStatus>>
       ELSE Raise("ModuleNotFoundError")
    /\ UNCHANGED <<env, port, server, stdout, log, history>>

\* line 32: port = int(os.environ.get("PORT", 8080))
ReadPort ==
    /\ pc = "main"
    /\ LET r == PortFromEnv(envPORT)
       IN  IF r.ok
           THEN port' = r.val /\ pc' = "bind" /\ UNCHANGED <<failure, exitStatus>>
           ELSE Raise("ValueError") /\ UNCHANGED port
    /\ UNCHANGED <<env, server, stdout, log, history>>

\* variant: the port is announced before the listener is bound
BindListener_AnnounceFirst ==
    /\ pc = "bind"
    /\ stdout' = Append(stdout, AnnounceLine(port))
    /\ IF port \notin ValidPorts
       THEN Raise("OverflowError") /\ UNCHANGED server
       ELSE IF port \in portsInUse
       THEN Raise("OSError") /\ UNCHANGED server
       ELSE /\ \E p \in (IF port = 0 THEN EphemeralPorts \ portsInUse ELSE {port}) :
                  server' = [bound |-> TRUE, host |-> "0.0.0.0", port |-> p]
            /\ pc' = "announce"
            /\ UNCHANGED <<failure, exitStatus>>
    /\ UNCHANGED <<env, port, log, history>>

\* line 33: server = HTTPServer(("0.0.0.0", port), HealthHandler)
BindListener ==
    /\ pc = "bind"
    /\ IF port \notin ValidPorts
       THEN Raise("OverflowError") /\ UNCHANGED server
       ELSE IF port \in portsInUse
       THEN Raise("OSError") /\ UNCHANGED server
       ELSE /\ \E p \in (IF port = 0 THEN EphemeralPorts \ portsInUse ELSE {port}) :
                  server' = [bound |-> TRUE, host |-> "0.0.0.0", port |-> p]
            /\ pc' = "announce"
            /\ UNCHANGED <<failure, exitStatus>>
    /\ UNCHANGED <<env, port, stdout, log, history>>

\* line 34: print(f"Server running on port {port}")
Announce ==
    /\ pc = "announce"
    /\ stdout' = Append(stdout, AnnounceLine(port))
    /\ pc' = "serving"
    /\ UNCHANGED <<env, port, server, log, history, failure, exitStatus>>

\* variant: the handler keeps a hit counter and reports it from the second hit on
HandleRequest_Counting(method, path) ==
    /\ pc = "serving"
    /\ Len(history) < MaxRequests
    /\ history' = Append(history,
                         [method |-> method, path |-> path,
                          response |-> IF history = <<>> THEN Answer(method, path)
                                       ELSE Response(200, "text/plain",
                                                     <<"hits">> \o IntStr(Len(history)))])
    /\ log' = LogAll(log, LogCalls(method, path))
    /\ UNCHANGED <<env, pc, port, server, stdout, failure, exitStatus>>

\* line 35: serve_forever handles one request with a fresh HealthHandler
HandleRequest(method, path) ==
    /\ pc = "serving"
    /\ Len(history) < MaxRequests
    /\ history' = Append(history,
                         [method |-> method, path |-> path,
                          response |-> Answer(method, path)])
    /\ log' = LogAll(log, LogCalls(method, path))
    /\ UNCHANGED <<env, pc, port, server, stdout, failure, exitStatus>>

Next ==
    \/ ImportModules
    \/ ReadPort
    \/ BindListener
    \/ Announce
    \/ \E method \in Methods, path \in Paths : HandleRequest(method, path)

Spec == Init /\ [][Next]_vars

-----------------------------------------------------------------------------
(* Properties.                                                               *)

Handled == {history[i] : i \in DOMAIN history}

BindFailures == {"OSError", "OverflowError"}

\* C1: every GET /health handled by the running server was answered with
\* status 200, Content-Type application/json and a body whose JSON value is
\* the object {"status": "ok"}.
C1_HealthAnswer ==
    \A h \in Handled :
        (h.method = "GET" /\ h.path = "/health") =>
            /\ h.response.status = 200
            /\ h.response.ctype = "application/json"
            /\ JsonLoads(h.response.body) = [ok |-> TRUE, val |-> <<(<<"status", "ok">>)>>]

\* a GET /health answered after two other requests
C1_Witness ==
    /\ Len(history) = 3
    /\ history[1].method = "POST"
    /\ history[2].path = "/foo"
    /\ history[3].method = "GET" /\ history[3].path = "/health"

\* C2: every GET for a request target other than /health, targets that only
\* start with /health included, was answered with status 200, Content-Type
\* text/plain and the body Supply Chain POC App.
C2_GreetingAnswer ==
    \A h \in Handled :
        (h.method = "GET" /\ h.path # "/health") =>
            /\ h.response.status = 200
            /\ h.response.ctype = "text/plain"
            /\ h.response.body = <<"Supply Chain POC App">>

\* GETs for /, /health/ and /health?x=1 have all been answered
C2_Witness ==
    \A p \in {"/", "/health/", "/health?x=1"} :
        \E h \in Handled : h.method = "GET" /\ h.path = p

\* C3 (as claimed): with PORT unset or not parsable as an integer, start-up
\* never fails on the value of PORT and a bound listener is on port 8080.
C3_DefaultsTo8080 ==
    (~envPORT.set \/ ~ParseInt(envPORT.val).ok) =>
        /\ failure # "ValueError"
        /\ server.bound => server.port = 8080

\* C4 (as claimed): the decorative imports never change the outcome of
\* start-up: with a PORT that names a valid free port the process does not exit.
C4_ImportsNeverChangeStartup ==
    (PortFromEnv(envPORT).ok /\ PortFromEnv(envPORT).val \in ValidPorts \ portsInUse)
        => pc # "exited"

\* C5 (as claimed): every request, whatever its method, was answered with
\* status 200.
C5_EveryRequestAnswered200 == \A h \in Handled : h.response.status = 200

\* C5 (amended): every GET request was answered with status 200, and every
\* request with another method was answered with status 501.
C5_GetOkOthers501 ==
    \A h \in Handled :
        h.response.status = IF h.method = "GET" THEN 200 ELSE 501

\* a POST and a GET have both been answered
C5_Witness ==
    /\ \E h \in Handled : h.method = "POST" /\ h.response.status = 501
    /\ \E h \in Handled : h.method = "GET" /\ h.path = "/foo" /\ h.response.status = 200

\* C6: once binding the listener has failed, the process has exited with a
\* non-zero status, no listener is bound, nothing was printed and no request
\* was answered; this stays so.
C6_BindFailureIsFatal ==
    failure \in BindFailures =>
        /\ pc = "exited"
        /\ exitStatus # 0
        /\ ~server.bound
        /\ stdout = <<>>
        /\ history = <<>>

\* binding failed because the port is taken
C6_Witness ==
    /\ failure = "OSError"
    /\ port \in portsInUse
    /\ pc = "exited"

\* C7: two GET requests for the same path handled by one server process got
\* the same response, whatever was handled before or between them.
C7_HistoryIndependent ==
    \A i, j \in DOMAIN history :
        (history[i].method = "GET" /\ history[j].method = "GET"
         /\ history[i].path = history[j].path)
            => history[i].response = history[j].response

\* the same path fetched first and third, with another request in between
C7_Witness ==
    /\ Len(history) = 3
    /\ history[1].method = "GET" /\ history[3].method = "GET"
    /\ history[1].path = "/health" /\ history[3].path = "/health"
    /\ history[2].path # "/health"

\* C8 (as claimed): with PORT set to any numeric value p, a bound listener is
\* on port p of 0.0.0.0, and on 8080 only if p is 8080.
C8_BindsRequestedPort ==
    (server.bound /\ envPORT.set /\ ParseInt(envPORT.val).ok) =>
        /\ server.host = "0.0.0.0"
        /\ server.port = ParseInt(envPORT.val).val
        /\ (ParseInt(envPORT.val).val # 8080 => server.port # 8080)

\* C8 (amended): the same for p in 1..65535; PORT=9090 gives port 9090.
C8_BindsRequestedNonZeroPort ==
    /\ (server.bound /\ envPORT.set /\ ParseInt(envPORT.val).ok
        /\ ParseInt(envPORT.val).val \in 1..65535) =>
            /\ server.host = "0.0.0.0"
            /\ server.port = ParseInt(envPORT.val).val
            /\ (ParseInt(envPORT.val).val # 8080 => server.port # 8080)
    /\ (server.bound /\ envPORT = SetTo(<<"9", "0", "9", "0">>)) => server.port = 9090

\* the server serves on 9090 with PORT=9090
C8_Witness ==
    /\ pc = "serving"
    /\ envPORT = SetTo(<<"9", "0", "9", "0">>)
    /\ server = [bound |-> TRUE, host |-> "0.0.0.0", port |-> 9090]

\* C9 (as claimed): a serving process has printed exactly one line, the line
\* names the port the listener is bound to, nothing is printed before the
\* listener is bound and no request is answered before the line is printed.
C9_AnnouncesBoundPort ==
    /\ pc = "serving" => stdout = <<AnnounceLine(server.port)>>
    /\ stdout # <<>> => server.bound
    /\ history # <<>> => Len(stdout) = 1

\* C10: no step of the program changes the output of log_message.
C10_LogUnchanged == [][log' = log]_vars

\* an answered and a rejected request have been handled, and nothing was logged
C10_Witness ==
    /\ \E h \in Handled : h.response.status = 200
    /\ \E h \in Handled : h.response.status = 501
    /\ log = <<>>

====
